---------------------------- MODULE Spec2Model ----------------------------
(***************************************************************************)
(* create_package.py of ClipMaster: the packaging script that walks the    *)
(* extension directory and writes its files into a zip archive.            *)
(*                                                                         *)
(* A Python str is a sequence of one-character strings, so that the        *)
(* substring test of should_exclude, the joins of os.walk and pathlib and  *)
(* the prefix strip of relative_to are computed, not assumed.  A Python    *)
(* value that reaches str() is tagged with its type ("str" or "Path").     *)
(***************************************************************************)
EXTENDS Integers, Sequences, FiniteSets, TLC

(***************************************************************************)
(* Bounds of the model.                                                    *)
(***************************************************************************)
\* invocations of the script in one behaviour
MaxRuns == 2
\* files of the largest flat source tree (25 files give 21 archive entries)
MaxFlat == 25
\* a directory of up to MaxPermute entries is enumerated in every order
MaxPermute == 4
\* nodes of the source tree the process may not read
MaxUnreadable == 1

(***************************************************************************)
(* Module constants of create_package.py.                                  *)
(***************************************************************************)
Sep == "/"

EXTENSION_UUID ==
    <<"c", "l", "i", "p", "m", "a", "s", "t", "e", "r", "@", "g", "n", "o",
      "m", "e", ".", "e", "x", "t", "e", "n", "s", "i", "o", "n">>

StrVal(chars) == [kind |-> "str", chars |-> chars]

PathVal(parts) == [kind |-> "Path", parts |-> parts]

RECURSIVE SplitAcc(_, _, _)
SplitAcc(s, cur, acc) ==
    IF s = <<>>
    THEN IF cur = <<>> THEN acc ELSE Append(acc, cur)
    ELSE IF Head(s) = Sep
         THEN SplitAcc(Tail(s), <<>>, IF cur = <<>> THEN acc ELSE Append(acc, cur))
         ELSE SplitAcc(Tail(s), Append(cur, Head(s)), acc)

\* pathlib.Path(s): the string parsed into its parts
PathFromStr(s) == PathVal(SplitAcc(s, <<>>, <<>>))

RECURSIVE JoinParts(_)
JoinParts(parts) ==
    IF parts = <<>> THEN <<".">>
    ELSE IF Len(parts) = 1 THEN parts[1]
    ELSE parts[1] \o <<Sep>> \o JoinParts(Tail(parts))

\* str(x) of a str or of a Path
PyStr(x) == IF x.kind = "str" THEN x.chars ELSE JoinParts(x.parts)

\* Path / name
PathDiv(p, name) == PathVal(p.parts \o SplitAcc(name, <<>>, <<>>))

EXTENSION_DIR == PathFromStr(EXTENSION_UUID)

PACKAGE_NAME ==
    EXTENSION_UUID \o
    <<".", "s", "h", "e", "l", "l", "-", "e", "x", "t", "e", "n", "s", "i",
      "o", "n", ".", "z", "i", "p">>

EXCLUDE_PATTERNS ==
    << <<".", "g", "i", "t">>,
       <<".", "D", "S", "_", "S", "t", "o", "r", "e">>,
       <<"~">>,
       <<".", "s", "w", "p">>,
       <<".", "s", "w", "o">>,
       <<"g", "s", "c", "h", "e", "m", "a", "s", ".", "c", "o", "m", "p", "i",
         "l", "e", "d">> >>

\* Python's `pattern in s`
Contains(s, pattern) ==
    \E i \in 1..(Len(s) - Len(pattern) + 1) :
        SubSeq(s, i, i + Len(pattern) - 1) = pattern

\* a plausible slip: the pattern compared with the whole string
should_exclude_exact(filepath) ==
    \E k \in 1..Len(EXCLUDE_PATTERNS) : PyStr(filepath) = EXCLUDE_PATTERNS[k]

should_exclude(filepath) ==
    \E k \in 1..Len(EXCLUDE_PATTERNS) :
        Contains(PyStr(filepath), EXCLUDE_PATTERNS[k])

\* a plausible slip: zipf.write(filepath) with no arcname
relative_to_unstripped(p, base) == p

\* Path.relative_to(base): the parts after the prefix base, else ValueError
relative_to(p, base) ==
    IF /\ Len(base.parts) <= Len(p.parts)
       /\ SubSeq(p.parts, 1, Len(base.parts)) = base.parts
    THEN PathVal(SubSeq(p.parts, Len(base.parts) + 1, Len(p.parts)))
    ELSE [kind |-> "ValueError"]


(***************************************************************************)
(* The filesystem the script reads.  A node is a number; Root is the       *)
(* extension directory itself.  Nodes 1..9 form a small tree universe,     *)
(* nodes 10.. are the files of a flat tree.                                *)
(***************************************************************************)
Root == 0

DigitChar == <<"0", "1", "2", "3", "4", "5", "6", "7", "8", "9">>

RECURSIVE Digits(_)
Digits(i) ==
    IF i < 10 THEN <<DigitChar[i + 1]>>
    ELSE Digits(i \div 10) \o <<DigitChar[(i % 10) + 1]>>

\* the i-th file of a flat tree
FlatName(i) ==
    CASE i = 3 -> <<".", "D", "S", "_", "S", "t", "o", "r", "e">>
      [] i = 5 -> <<"f">> \o Digits(i) \o <<".", "s", "w", "p">>
      [] i = 7 -> <<"f">> \o Digits(i) \o <<".", "s", "w", "o">>
      [] i = 9 -> <<"f">> \o Digits(i) \o <<".", "j", "s", "~">>
      [] i = 11 -> <<"f">> \o Digits(i) \o <<".", "S", "W", "P">>
      [] OTHER -> <<"f">> \o Digits(i) \o <<".", "j", "s">>

Name(n) ==
    CASE n = 0 -> EXTENSION_UUID
      [] n = 1 -> <<"m", "e", "t", "a", "d", "a", "t", "a", ".", "j", "s", "o", "n">>
      [] n = 2 -> <<"l", "i", "b">>
      [] n = 3 -> <<"a", ".", "j", "s">>
      [] n = 4 -> <<".", "g", "i", "t">>
      [] n = 5 -> <<"c", "o", "n", "f", "i", "g">>
      [] n = 6 -> <<"s", "c", "h", "e", "m", "a", "s">>
      [] n = 7 -> <<"g", "s", "c", "h", "e", "m", "a", "s", ".", "c", "o", "m", "p",
                    "i", "l", "e", "d">>
      [] n = 8 -> EXTENSION_UUID
      [] n = 9 -> <<"a", ".", "j", "s">>
      [] OTHER -> FlatName(n - 9)

Parent(n) ==
    CASE n = 3 -> 2
      [] n = 5 -> 4
      [] n = 7 -> 6
      [] n = 9 -> 8
      [] OTHER -> Root

IsDir(n) == n \in {0, 2, 4, 6, 8}

SmallNodes == 1..9

FlatNodes(k) == 10..(9 + k)

\* the source trees of the model: no source directory, every parent-closed
\* part of the small universe, and the flat trees of the largest sizes
ValidTrees ==
    {{}}
    \cup {{Root} \cup t : t \in {u \in SUBSET SmallNodes : \A n \in u : Parent(n) \in u \cup {Root}}}
    \cup {{Root} \cup FlatNodes(k) : k \in (MaxFlat - 3)..MaxFlat}

RECURSIVE SubsetsUpTo(_, _)
SubsetsUpTo(S, k) ==
    IF k = 0 THEN {{}}
    ELSE SubsetsUpTo(S, k - 1)
         \cup {u \cup {n} : u \in SubsetsUpTo(S, k - 1), n \in S}

\* a filesystem state: the tree, and the nodes the process may not read
FsStates ==
    UNION {{[tree |-> t, unreadable |-> u] : u \in SubsetsUpTo(t, MaxUnreadable)} :
              t \in ValidTrees}

Children(t, n) == {c \in t : c # Root /\ Parent(c) = n}

RECURSIVE Subtree(_, _)
Subtree(t, n) == {n} \cup UNION {Subtree(t, c) : c \in Children(t, n)}

\* what one change of the filesystem between two invocations leads to: a
\* node created, a subtree deleted, or the permissions of a node changed
Edits(fs) ==
    LET t == fs.tree
        u == fs.unreadable
    IN  {[tree |-> t \cup {n}, unreadable |-> u] :
            n \in {m \in (0..(9 + MaxFlat)) \ t : t \cup {m} \in ValidTrees}}
        \cup {[tree |-> t \ Subtree(t, n), unreadable |-> u \ Subtree(t, n)] :
                n \in {m \in t : t \ Subtree(t, m) \in ValidTrees}}
        \cup {[tree |-> t, unreadable |-> u \cup {n}] :
                n \in {m \in t \ u : Cardinality(u) < MaxUnreadable}}
        \cup {[tree |-> t, unreadable |-> u \ {n}] : n \in u}

(***************************************************************************)
(* Directory enumeration: os.scandir returns the entries of a directory in *)
(* an order the filesystem chooses.                                        *)
(***************************************************************************)
RECURSIVE Perms(_)
Perms(S) ==
    IF S = {} THEN {<<>>}
    ELSE UNION {{<<x>> \o q : q \in Perms(S \ {x})} : x \in S}

RECURSIVE Ascending(_)
Ascending(S) ==
    IF S = {} THEN <<>>
    ELSE LET m == CHOOSE x \in S : \A y \in S : x <= y
         IN  <<m>> \o Ascending(S \ {m})

RECURSIVE Descending(_)
Descending(S) ==
    IF S = {} THEN <<>>
    ELSE LET m == CHOOSE x \in S : \A y \in S : x >= y
         IN  <<m>> \o Descending(S \ {m})

Listings(S) ==
    IF Cardinality(S) <= MaxPermute THEN Perms(S)
    ELSE {Ascending(S), Descending(S)}

\* the root string os.walk yields for a directory: os.path.join(top, dirname)
RECURSIVE WalkRoot(_)
WalkRoot(n) ==
    IF n = Root THEN PyStr(EXTENSION_DIR)
    ELSE WalkRoot(Parent(n)) \o <<Sep>> \o Name(n)

\* a plausible slip: the exclusion filter on dirs left out
FilterDirsNone(ds) == ds

\* line 51: dirs[:] = [d for d in dirs if not should_exclude(d)]
FilterDirs(ds) == SelectSeq(ds, LAMBDA d : ~should_exclude(StrVal(Name(d))))

\* a plausible slip: break in place of continue
AfterSkipBreak(fs) == <<>>

\* line 56: continue
AfterSkip(fs) == Tail(fs)

\* line 54: filepath = Path(root) / file
FilePath(dir, file) == PathDiv(PathFromStr(WalkRoot(dir)), Name(file))

AllNodes == 0..(9 + MaxFlat)

\* lines 54-60 for every directory and entry name: filepath, whether it is
\* excluded, and its arcname (the three are functions of root and file alone)
FileTable ==
    [d \in {n \in AllNodes : IsDir(n)} |->
        [f \in AllNodes |->
            LET filepath == FilePath(d, f)
            IN  [excluded |-> should_exclude(filepath),
                 arcname  |-> relative_to(filepath, EXTENSION_DIR)]]]

SummaryLimit == 20

Min(a, b) == IF a <= b THEN a ELSE b

\* a plausible slip: >= in place of >
SummarizeGE(infolist) ==
    [names |-> SubSeq(infolist, 1, Min(SummaryLimit, Len(infolist))),
     more  |-> IF Len(infolist) >= SummaryLimit
               THEN <<Len(infolist) - SummaryLimit>> ELSE <<>>]

\* lines 69-73: the lines of the contents summary
Summarize(infolist) ==
    [names |-> SubSeq(infolist, 1, Min(SummaryLimit, Len(infolist))),
     more  |-> IF Len(infolist) > SummaryLimit
               THEN <<Len(infolist) - SummaryLimit>> ELSE <<>>]

NoPackage == [exists |-> FALSE, entries |-> <<>>]

\* a plausible slip: the old package kept and opened for append
MergedPackage(file) == [exists |-> TRUE, entries |-> file.entries]

\* line 46: os.remove(PACKAGE_NAME)
os_remove(file) == NoPackage

\* line 48: zipfile.ZipFile(PACKAGE_NAME, 'w'): created, or truncated
ZipFileW(file) == [exists |-> TRUE, entries |-> <<>>]

\* lines 45-48: the old package removed if there is one, then opened with 'w'
FreshPackage(file) == ZipFileW(IF file.exists THEN os_remove(file) ELSE file)

(***************************************************************************)
(* State.                                                                  *)
(***************************************************************************)
VARIABLES
    tree,          \* the nodes of the filesystem under (and including) Root
    unreadable,    \* the nodes the process may not read
    package,       \* the file at PACKAGE_NAME: [exists, entries]
    pc,            \* position of control
    runs,          \* invocations of the script so far
    stack,         \* os.walk: directories still to be visited
    root,          \* os.walk: the directory yielded last
    dirs,          \* os.walk: its subdirectories, as the loop body left them
    files,         \* the files of root the loop body has still to handle
    zipOpen,       \* the ZipFile of line 48 is open for writing
    result,        \* what create_package returned: "none", "True", "False"
    exitCode,      \* exit status of the process, once pc = "exited"
    errorMsg,      \* line 39 was printed
    successMsg,    \* line 65 was printed
    added,         \* the "Added:" lines printed (line 62)
    summary,       \* the lines of the contents summary printed (lines 71, 73)
    fsError,       \* an OSError was raised in this run
    oldPackage,    \* a package with entries was at PACKAGE_NAME at the start
    visited        \* the directories os.walk has listed in this run

vars ==
    <<tree, unreadable, package, pc, runs, stack, root, dirs, files, zipOpen,
      result, exitCode, errorMsg, successMsg, added, summary, fsError,
      oldPackage, visited>>

fsVars == <<tree, unreadable>>

walkVars == <<stack, root, dirs, files, visited>>

outVars == <<errorMsg, successMsg, added, summary>>

NoSummary == [names |-> <<>>, more |-> <<>>]

Init ==
    /\ \E fs \in FsStates : tree = fs.tree /\ unreadable = fs.unreadable
    /\ package = NoPackage
    /\ pc = "idle"
    /\ runs = 0
    /\ stack = <<>>
    /\ root = Root
    /\ dirs = <<>>
    /\ files = <<>>
    /\ zipOpen = FALSE
    /\ result = "none"
    /\ exitCode = 0
    /\ errorMsg = FALSE
    /\ successMsg = FALSE
    /\ added = <<>>
    /\ summary = NoSummary
    /\ fsError = FALSE
    /\ oldPackage = FALSE
    /\ visited = {}

\* the state of a process that has not started: nothing printed, nothing
\* returned, no walk under way
ProcessReset ==
    /\ stack' = <<>>
    /\ root' = Root
    /\ dirs' = <<>>
    /\ files' = <<>>
    /\ zipOpen' = FALSE
    /\ result' = "none"
    /\ exitCode' = 0
    /\ errorMsg' = FALSE
    /\ successMsg' = FALSE
    /\ added' = <<>>
    /\ summary' = NoSummary
    /\ fsError' = FALSE
    /\ visited' = {}

\* lines 84-85, 30-36: the script is started and create_package is entered
Invoke ==
    /\ pc \in {"idle", "exited"}
    /\ runs < MaxRuns
    /\ runs' = runs + 1
    /\ pc' = "check"
    /\ ProcessReset
    /\ oldPackage' = (package.exists /\ package.entries # <<>>)
    /\ UNCHANGED <<tree, unreadable, package>>

\* a plausible slip: the old package removed before the existence check
CheckExistsAfterRemove ==
    /\ pc = "check"
    /\ package' = IF package.exists THEN os_remove(package) ELSE package
    /\ IF Root \in tree
       THEN /\ pc' = "open"
            /\ UNCHANGED <<result, errorMsg>>
       ELSE /\ errorMsg' = TRUE
            /\ result' = "False"
            /\ pc' = "returned"
    /\ UNCHANGED <<fsVars, walkVars, runs, zipOpen, exitCode, successMsg,
                   added, summary, fsError, oldPackage>>

\* lines 38-42: if not EXTENSION_DIR.exists(): print the error, return False
CheckExists ==
    /\ pc = "check"
    /\ IF Root \in tree
       THEN /\ pc' = "open"
            /\ UNCHANGED <<result, errorMsg>>
       ELSE /\ errorMsg' = TRUE
            /\ result' = "False"
            /\ pc' = "returned"
    /\ UNCHANGED <<fsVars, walkVars, package, runs, zipOpen, exitCode,
                   successMsg, added, summary, fsError, oldPackage>>

\* lines 44-49: the old package removed, the new one opened, os.walk started
RemoveAndOpen ==
    /\ pc = "open"
    /\ package' = FreshPackage(package)
    /\ zipOpen' = TRUE
    /\ stack' = <<Root>>
    /\ pc' = "walk"
    /\ UNCHANGED <<fsVars, root, dirs, files, visited, runs, result, exitCode,
                   outVars, fsError, oldPackage>>

\* line 49: os.walk cannot list the next directory; with onerror=None the
\* OSError of scandir is dropped and the directory is passed over
WalkSkipUnlistable ==
    /\ pc = "walk"
    /\ stack # <<>>
    /\ Head(stack) \in unreadable
    /\ stack' = Tail(stack)
    /\ fsError' = TRUE
    /\ UNCHANGED <<fsVars, package, pc, runs, root, dirs, files, visited,
                   zipOpen, result, exitCode, outVars, oldPackage>>

\* lines 49-51: os.walk lists the next directory and yields it; the loop
\* body filters dirs in place
WalkYield ==
    /\ pc = "walk"
    /\ stack # <<>>
    /\ Head(stack) \notin unreadable
    /\ LET top == Head(stack)
           sub == {c \in Children(tree, top) : IsDir(c)}
           non == {c \in Children(tree, top) : ~IsDir(c)}
       IN  \E ds \in Listings(sub), fs \in Listings(non) :
              /\ root' = top
              /\ dirs' = FilterDirs(ds)
              /\ files' = fs
              /\ visited' = visited \cup {top}
    /\ stack' = Tail(stack)
    /\ pc' = "files"
    /\ UNCHANGED <<fsVars, package, runs, zipOpen, result, exitCode, outVars,
                   fsError, oldPackage>>

\* lines 53-56: the next file is excluded
SkipFile ==
    /\ pc = "files"
    /\ files # <<>>
    /\ FileTable[root][Head(files)].excluded
    /\ files' = AfterSkip(files)
    /\ UNCHANGED <<fsVars, package, pc, runs, stack, root, dirs, visited,
                   zipOpen, result, exitCode, outVars, fsError, oldPackage>>

\* lines 53-62: the next file is written to the archive under its arcname
AddFile ==
    /\ pc = "files"
    /\ files # <<>>
    /\ LET arcname == FileTable[root][Head(files)].arcname
       IN  /\ ~FileTable[root][Head(files)].excluded
           /\ arcname.kind = "Path"
           /\ Head(files) \notin unreadable
           /\ package' = [package EXCEPT !.entries = Append(@, PyStr(arcname))]
           /\ added' = Append(added, PyStr(arcname))
    /\ files' = Tail(files)
    /\ UNCHANGED <<fsVars, pc, runs, stack, root, dirs, visited, zipOpen,
                   result, exitCode, errorMsg, successMsg, summary, fsError,
                   oldPackage>>

\* lines 60-61: relative_to or zipf.write raises; the with statement closes
\* the archive with the entries written so far and the exception leaves
\* create_package
FailFile ==
    /\ pc = "files"
    /\ files # <<>>
    /\ LET arcname == FileTable[root][Head(files)].arcname
       IN  /\ ~FileTable[root][Head(files)].excluded
           /\ IF arcname.kind = "Path"
              THEN Head(files) \in unreadable /\ fsError' = TRUE
              ELSE UNCHANGED fsError
    /\ zipOpen' = FALSE
    /\ pc' = "aborted"
    /\ UNCHANGED <<fsVars, package, runs, walkVars, result, exitCode, outVars, oldPackage>>

\* line 53 ends; os.walk goes on with the directories left in dirs
DirDone ==
    /\ pc = "files"
    /\ files = <<>>
    /\ stack' = dirs \o stack
    /\ dirs' = <<>>
    /\ pc' = "walk"
    /\ UNCHANGED <<fsVars, package, runs, root, files, visited, zipOpen,
                   result, exitCode, outVars, fsError, oldPackage>>

\* lines 48, 64-67: os.walk is exhausted, the with statement closes the
\* archive, the success message is printed
WalkDone ==
    /\ pc = "walk"
    /\ stack = <<>>
    /\ zipOpen' = FALSE
    /\ successMsg' = TRUE
    /\ pc' = "summary"
    /\ UNCHANGED <<fsVars, package, runs, walkVars, result, exitCode, errorMsg,
                   added, summary, fsError, oldPackage>>

\* lines 69-82: the archive is read back, the summary printed, True returned
PrintSummary ==
    /\ pc = "summary"
    /\ summary' = Summarize(package.entries)
    /\ result' = "True"
    /\ pc' = "returned"
    /\ UNCHANGED <<fsVars, package, runs, walkVars, zipOpen, exitCode,
                   errorMsg, successMsg, added, fsError, oldPackage>>

\* line 85: the value create_package returned is dropped; the interpreter
\* exits with status 0
Exit ==
    /\ pc = "returned"
    /\ exitCode' = 0
    /\ pc' = "exited"
    /\ UNCHANGED <<fsVars, package, runs, walkVars, zipOpen, result, outVars,
                   fsError, oldPackage>>

\* line 85: an exception left create_package; the interpreter prints the
\* traceback and exits with status 1
ExitOnException ==
    /\ pc = "aborted"
    /\ exitCode' = 1
    /\ pc' = "exited"
    /\ UNCHANGED <<fsVars, package, runs, walkVars, zipOpen, result, outVars,
                   fsError, oldPackage>>

\* between two invocations the user changes the source tree; the process
\* that exited is gone, the file it wrote stays
EditTree ==
    /\ pc = "exited"
    /\ runs < MaxRuns
    /\ \E g \in Edits([tree |-> tree, unreadable |-> unreadable]) :
          /\ tree' = g.tree
          /\ unreadable' = g.unreadable
    /\ pc' = "idle"
    /\ ProcessReset
    /\ oldPackage' = FALSE
    /\ UNCHANGED <<package, runs>>

Next ==
    \/ Invoke
    \/ CheckExists
    \/ RemoveAndOpen
    \/ WalkSkipUnlistable
    \/ WalkYield
    \/ SkipFile
    \/ AddFile
    \/ FailFile
    \/ DirDone
    \/ WalkDone
    \/ PrintSummary
    \/ Exit
    \/ ExitOnException
    \/ EditTree

Spec == Init /\ [][Next]_vars

(***************************************************************************)
(* Vocabulary of the properties.  The tables hold, for every node of the   *)
(* universe, facts about its name that do not depend on the state.         *)
(***************************************************************************)
\* the path of a node relative to the source directory
RECURSIVE RelName(_)
RelName(n) ==
    IF Parent(n) = Root THEN Name(n)
    ELSE RelName(Parent(n)) \o <<"/">> \o Name(n)

RECURSIVE Ancestors(_)
Ancestors(n) == IF n = Root THEN {} ELSE {Parent(n)} \cup Ancestors(Parent(n))

RegularFiles(t) == {n \in t : n # Root /\ ~IsDir(n)}

HasPattern(s) == \E k \in 1..Len(EXCLUDE_PATTERNS) : Contains(s, EXCLUDE_PATTERNS[k])

RelNameOf == [n \in AllNodes \ {Root} |-> RelName(n)]

\* the relative path contains an exclusion pattern
PatternInRel == [n \in AllNodes \ {Root} |-> HasPattern(RelName(n))]

\* the own name contains an exclusion pattern
PatternInName == [n \in AllNodes |-> HasPattern(Name(n))]

\* the path as the script sees it, source directory included, contains one
PatternInFull ==
    [n \in AllNodes \ {Root} |-> HasPattern(Name(Root) \o <<"/">> \o RelName(n))]

UnderExcludedDir(n) == \E a \in Ancestors(n) \ {Root} : PatternInName[a]

\* the files P1 wants in the archive
Eligible(t) == {n \in RegularFiles(t) : ~PatternInName[n] /\ ~UnderExcludedDir(n)}

Range(seq) == {seq[i] : i \in DOMAIN seq}

EntrySet == Range(package.entries)

\* the entry written last; every entry is the last one in the state that
\* follows its write
LastAdded == IF added = <<>> THEN {} ELSE {added[Len(added)]}

Finished == pc \in {"returned", "exited"}

Success == Finished /\ result = "True"

\* the first path component of an entry name
RECURSIVE FirstComponent(_)
FirstComponent(s) ==
    IF s = <<>> \/ Head(s) = "/" THEN <<>>
    ELSE <<Head(s)>> \o FirstComponent(Tail(s))

\* what a walk lists below directory d, whatever the order of enumeration
RECURSIVE WalkSet(_, _, _)
WalkSet(t, u, d) ==
    IF d \in u THEN {}
    ELSE {RelNameOf[f] : f \in {c \in Children(t, d) : ~IsDir(c) /\ ~PatternInFull[c]}}
         \cup UNION {WalkSet(t, u, c) :
                        c \in {c \in Children(t, d) : IsDir(c) /\ ~PatternInName[c]}}

ScenarioTree == {Root, 1, 2, 3, 4, 5, 6, 7}

ScenarioEntries ==
    {<<"m", "e", "t", "a", "d", "a", "t", "a", ".", "j", "s", "o", "n">>,
     <<"l", "i", "b", "/", "a", ".", "j", "s">>}

(***************************************************************************)
(* C1  Completeness (P1): after a successful run the archive holds exactly *)
(* one entry for every regular file under the source directory that        *)
(* matches no exclusion pattern and lies under no excluded directory,      *)
(* named by its relative path, and no other entry.                         *)
(* The code does not keep this: TLC finds C1_Completeness violated.        *)
(***************************************************************************)
C1_Completeness ==
    Success =>
        /\ EntrySet = {RelNameOf[n] : n \in Eligible(tree)}
        /\ Len(package.entries) = Cardinality(EntrySet)

(***************************************************************************)
(* C2  Exclusion (P2): no path that contains an exclusion pattern gets an  *)
(* entry; a directory whose name matches is never listed nor scheduled, so *)
(* nothing below it gets an entry; and the scenario tree yields exactly    *)
(* metadata.json and lib/a.js.                                             *)
(***************************************************************************)
C2_Exclusion ==
    /\ \A e \in LastAdded \cup (IF Finished THEN EntrySet ELSE {}) : ~HasPattern(e)
    /\ \A n \in tree \ {Root} :
          (PatternInRel[n] \/ UnderExcludedDir(n)) =>
              /\ RelNameOf[n] \notin Range(added)
              /\ n \notin visited
              /\ n \notin Range(stack) \cup Range(dirs)
    /\ (Success /\ tree = ScenarioTree /\ unreadable = {}) =>
          EntrySet = ScenarioEntries

C2_Witness ==
    /\ Success
    /\ tree = ScenarioTree
    /\ unreadable = {}
    /\ visited = {Root, 2, 6}
    /\ EntrySet = ScenarioEntries

C4_Overwrite ==
    Success =>
        /\ package.exists
        /\ package.entries = added
        /\ \A e \in EntrySet : \E n \in RegularFiles(tree) : e = RelNameOf[n]

C4_Witness ==
    /\ Success
    /\ runs = 2
    /\ oldPackage
    /\ package.exists
    /\ package.entries = <<>>

(***************************************************************************)
(* C5  No wrapper directory (P3), as stated: no entry name has the source  *)
(* directory's name as its first path component.                           *)
(***************************************************************************)
C5_NoWrapperAsStated ==
    \A e \in EntrySet \cup Range(added) : FirstComponent(e) # Name(Root)

(***************************************************************************)
(* C5, amended: every entry name is the path of a regular file of the tree *)
(* relative to the source directory (the source directory's name is        *)
(* stripped once from the front), so an entry name has the source          *)
(* directory's name as its first component only when the source directory  *)
(* itself has a child of that name.                                        *)
(***************************************************************************)
C5_RelativeNames ==
    \A e \in LastAdded \cup (IF Success THEN EntrySet ELSE {}) :
        /\ \E n \in RegularFiles(tree) : e = RelNameOf[n]
        /\ FirstComponent(e) = Name(Root) =>
              \E c \in Children(tree, Root) : Name(c) = Name(Root)

C5_Witness ==
    /\ Success
    /\ 9 \in tree
    /\ RelNameOf[9] \in EntrySet
    /\ FirstComponent(RelNameOf[9]) = Name(Root)

(***************************************************************************)
(* C6  Filesystem errors are never swallowed: a run in which an OSError    *)
(* was raised neither returns success nor prints the success message.      *)
(* The code does not keep this: TLC finds C6_NoSilentErrors violated.      *)
(***************************************************************************)
C6_NoSilentErrors ==
    fsError => (~successMsg /\ result # "True")

\* what create_package returns and prints, when no exception ends the run
ReturnedSignal ==
    (Finished /\ result # "none") =>
        /\ result \in {"True", "False"}
        /\ result = "False" <=> Root \notin tree
        /\ result = "False" => (errorMsg /\ ~successMsg)
        /\ result = "True" => (successMsg /\ ~errorMsg)

(***************************************************************************)
(* C7  Definite signal: a run not aborted by an exception returns True or  *)
(* False, False exactly when the source directory did not exist, with the  *)
(* matching message alone printed, and the process hands the signal on:    *)
(* it exits with status 0 exactly when create_package returned True.       *)
(* The code does not keep this: TLC finds C7_DefiniteSignal violated.      *)
(***************************************************************************)
C7_DefiniteSignal ==
    /\ ReturnedSignal
    /\ pc = "exited" => (exitCode = 0 <=> result = "True")

(***************************************************************************)
(* C8  One filter: after a successful run, a regular file that the walk    *)
(* can reach (every directory above it can be listed) has an entry exactly *)
(* when its relative path contains no exclusion pattern; a file below a    *)
(* pruned directory is one the full-path test rejects too; and the source  *)
(* directory's name in the tested string changes nothing.                  *)
(***************************************************************************)
C8_OneFilter ==
    Success =>
        /\ \A n \in RegularFiles(tree) :
              /\ Ancestors(n) \cap unreadable = {} =>
                    (RelNameOf[n] \in EntrySet <=> ~PatternInRel[n])
              /\ UnderExcludedDir(n) => FileTable[Parent(n)][n].excluded
              /\ FileTable[Parent(n)][n].excluded <=> PatternInRel[n]
        /\ ~should_exclude(EXTENSION_DIR)

C8_Witness ==
    /\ Success
    /\ unreadable = {}
    /\ {3, 5, 7, 9} \subseteq tree
    /\ EntrySet = {RelNameOf[3], RelNameOf[9]}

(***************************************************************************)
(* C9  Determinism of inclusion: the set of entry names of a successful    *)
(* run is a function of the source tree alone; the order in which the      *)
(* directories were enumerated shows only in the order of the entries.     *)
(***************************************************************************)
C9_Deterministic ==
    Success => EntrySet = WalkSet(tree, unreadable, Root)

C9_Witness ==
    /\ Success
    /\ {3, 9} \subseteq tree
    /\ package.entries = <<RelNameOf[9], RelNameOf[3]>>

(***************************************************************************)
(* C10  Summary: summary lines exist only once the archive is closed and   *)
(* the run has finished; for an archive of n entries they are its first    *)
(* min(n, 20) names in archive order, and a remainder line, with count     *)
(* n - 20, is among them exactly when n > 20.                              *)
(***************************************************************************)
C10_Summary ==
    /\ summary # NoSummary => (~zipOpen /\ Success)
    /\ Success =>
          LET n == Len(package.entries)
              k == IF n < 20 THEN n ELSE 20
          IN  /\ Len(summary.names) = k
              /\ \A i \in 1..k : summary.names[i] = package.entries[i]
              /\ summary.more # <<>> <=> n > 20
              /\ n > 20 => summary.more = <<n - 20>>

C10_Witness ==
    /\ Success
    /\ Len(package.entries) = 21
    /\ Len(summary.names) = 20
    /\ summary.more = <<1>>

=============================================================================
